---- MODULE Spec2Model ----
(***************************************************************************)
(* armory: coordinated release of a cargo workspace.                       *)
(*                                                                         *)
(* armory_cli/src/main.rs   main: load armory.toml, offer the three bumps, *)
(*                          save armory.toml, publish_workspace, "Done!".  *)
(* armory_lib/src/lib.rs    update_member_deps: rewrite every member       *)
(*                          manifest and build the local-dependency graph; *)
(*                          publish_workspace / publish_crate: recursive   *)
(*                          walk with a retried registry publish.          *)
(*                                                                         *)
(* The program is one sequential process; pc is its position.  A panic    *)
(* (unwrap / expect / panic!) ends the process, so does a stack overflow.  *)
(* Names are taken without surrounding white space, so the trim() calls   *)
(* of lib.rs:74 and lib.rs:86 leave them as they are.                      *)
(***************************************************************************)
EXTENDS Integers, Sequences, FiniteSets

VARIABLES
    pc,                \* position of main
    armory_file,       \* armory.toml on disk
    file_writes,       \* number of writes of armory.toml
    armory_toml,       \* main.rs:6  the loaded ArmoryTOML
    selected,          \* main.rs:41 the selected target version
    workspace_toml,    \* <dir>/Cargo.toml on disk
    manifests,         \* <dir>/<member>/Cargo.toml on disk, per member
    original,          \* the member manifests as the run found them
    rewritten,         \* members whose manifest was written (lib.rs:82-83)
    next_member,       \* lib.rs:59  index of the for loop over members
    graph,             \* lib.rs:52  HashMap<String, HashSet<String>>
    already_published, \* lib.rs:98  HashSet<String>
    keys_left,         \* lib.rs:100 keys the top-level loop has not visited
    stack,             \* call stack of publish_crate: frames [pkg, pending]
    current_try,       \* lib.rs:127 1-based attempt number of retry_with_index
    calls,             \* registry: cargo::ops::publish calls per name
    successes,         \* registry: successful publishes per name
    visited,           \* names publish_crate was called with (lib.rs:110)
    panic              \* the diagnostic the process ended with

vars == <<pc, armory_file, file_writes, armory_toml, selected, workspace_toml,
          manifests, original, rewritten, next_member, graph, already_published,
          keys_left, stack, current_try, calls, successes, visited, panic>>

-----------------------------------------------------------------------------
(* Bounds and universes                                                    *)

\* Names of packages: workspace members and dependency names.
Names == {"a", "b", "c"}

\* Frames of publish_crate the process stack holds before it overflows.
\* Larger than any walk of an acyclic graph over Names needs.
MaxDepth == 4

\* Width in bits the model gives the u64 fields of a version; the fields
\* of semver::Version have 64.
U64Bits == 3

-----------------------------------------------------------------------------
(* Versions (semver::Version) and their canonical string form              *)

\* u64::MAX at the width of the model.
UMax == 2^U64Bits - 1

\* x += 1 on a u64 as a build without overflow checks computes it.
WrappingInc(x) == (x + 1) % (UMax + 1)

Version(major, minor, patch) == [major |-> major, minor |-> minor, patch |-> patch]

\* Version::to_string: "major.minor.patch", held as the sequence of its numbers.
VersionToString(v) == <<v.major, v.minor, v.patch>>

\* A version string that is absent from a manifest.
NoString == <<>>

\* toml::from_str of the version field: the inverse of to_string.
ParseVersion(s) == Version(s[1], s[2], s[3])

-----------------------------------------------------------------------------
(* Manifests (toml_edit::Document of a member's Cargo.toml)                *)

\* One entry of a dependency table.  tableLike: the value is a table or an
\* inline table (as_table_like_mut is Some); path: the kind of its "path"
\* key; version: its "version" key, or the version a plain string gives.
Entry(tableLike, path, version) ==
    [present |-> TRUE, tableLike |-> tableLike, path |-> path, version |-> version]

NoEntry == [present |-> FALSE, tableLike |-> FALSE, path |-> "none", version |-> NoString]

OldReq == <<0, 1, 0>>

RegistryDep  == Entry(FALSE, "none", OldReq)     \* x = "0.1.0"
TableDep     == Entry(TRUE, "none", OldReq)      \* x = { version = "0.1.0" }
PathDep      == Entry(TRUE, "str", NoString)     \* x = { path = "../x" }
PathVerDep   == Entry(TRUE, "str", OldReq)       \* x = { path = "../x", version = "0.1.0" }
IntPathDep   == Entry(TRUE, "int", OldReq)       \* x = { path = 1, version = "0.1.0" }

NoDeps == [n \in Names |-> NoEntry]

\* A member manifest.  file: "ok", "missing" or "unparsable"; depsIsTable: the
\* item "dependencies" is a table (as_table_mut is Some); otherDeps: the entries
\* of another dependency section (build-dependencies, dev-dependencies, target.*);
\* other: every other field of the document.
Manifest(file, version, depsIsTable, deps, otherDeps) ==
    [file |-> file, version |-> version, depsIsTable |-> depsIsTable,
     deps |-> deps, otherDeps |-> otherDeps, other |-> "name, authors, comments"]

\* lib.rs:70-71  the entry is table-like and has a "path" key that is a string.
IsLocal(e) == e.present /\ e.tableLike /\ e.path = "str"

\* Path entries of the other dependency sections are edges too.
LocalDeps_AnySection(m) ==
    {n \in Names : (m.depsIsTable /\ IsLocal(m.deps[n])) \/ IsLocal(m.otherDeps[n])}

\* lib.rs:66-80  the names inserted into local_deps.
LocalDeps(m) ==
    IF m.depsIsTable THEN {n \in Names : IsLocal(m.deps[n])} ELSE {}

\* Every entry of [dependencies] gets the target version, registry ones too.
UpdateManifest_PinAll(m, version) ==
    [m EXCEPT
        !.version = VersionToString(version),
        !.deps = [n \in Names |->
                    IF m.deps[n].present
                    THEN [m.deps[n] EXCEPT !.version = VersionToString(version)]
                    ELSE m.deps[n]]]

\* lib.rs:65-80  the document after the edits, for target version `version`.
UpdateManifest(m, version) ==
    [m EXCEPT
        !.version = VersionToString(version),
        !.deps = IF m.depsIsTable
                 THEN [n \in Names |->
                         IF IsLocal(m.deps[n])
                         THEN [m.deps[n] EXCEPT !.version = VersionToString(version)]
                         ELSE m.deps[n]]
                 ELSE m.deps]

-----------------------------------------------------------------------------
(* The workspaces a run starts from                                        *)

CurrentString == <<1, 2, 3>>

\* Manifests whose [dependencies] holds a path entry n for every <<m, n>> in edges.
GraphManifests(edges) ==
    [m \in Names |->
        Manifest("ok", CurrentString, TRUE,
                 [n \in Names |-> IF <<m, n>> \in edges THEN PathDep ELSE NoEntry],
                 NoDeps)]

\* The chain c -> b -> a.
ChainEdges == {<<"b", "a">>, <<"c", "b">>}

WorkspaceToml(file, members) == [file |-> file, members |-> members]

\* Three members, any set of path dependencies between two of them (cycles
\* included), and the graphs in which "a" also depends on itself.
GraphWorkspaces ==
    {[ws |-> WorkspaceToml("ok", <<"a", "b", "c">>), manifests |-> GraphManifests(edges)] :
        edges \in SUBSET {e \in Names \X Names : e[1] # e[2]}
                  \cup {ChainEdges \cup {<<"a", "a">>} \cup x : x \in SUBSET {<<"c", "a">>}}}

\* Two members; "c" is a package outside the workspace they may depend on by path.
OpenWorkspaces ==
    {[ws |-> WorkspaceToml("ok", <<"a", "b">>), manifests |-> GraphManifests(edges)] :
        edges \in SUBSET ({"a", "b"} \X Names)}

\* Two members; every shape of a's entry for b, in [dependencies] and in
\* another section, with a registry dependency on "c" beside it.
EntryWorkspaces ==
    {[ws |-> WorkspaceToml("ok", <<"a", "b">>),
      manifests |->
        [m \in Names |->
            IF m = "a"
            THEN Manifest("ok", CurrentString, isTable,
                          [n \in Names |-> IF n = "b" THEN e
                                           ELSE IF n = "c" THEN RegistryDep ELSE NoEntry],
                          [n \in Names |-> IF n = "b" THEN d ELSE NoEntry])
            ELSE Manifest("ok", CurrentString, TRUE, NoDeps, NoDeps)]] :
        e \in {NoEntry, RegistryDep, TableDep, PathDep, PathVerDep, IntPathDep},
        d \in {NoEntry, RegistryDep, PathDep},
        isTable \in BOOLEAN}

FileStates == {"ok", "missing", "unparsable"}

\* The chain c -> b -> a with any of the manifests missing or unparsable.
BrokenWorkspaces ==
    {[ws |-> WorkspaceToml(wf, <<"a", "b", "c">>),
      manifests |-> [m \in Names |-> [GraphManifests(ChainEdges)[m] EXCEPT !.file = f[m]]]] :
        wf \in FileStates, f \in [Names -> FileStates]}

Workspaces == GraphWorkspaces \cup OpenWorkspaces \cup EntryWorkspaces \cup BrokenWorkspaces

\* A workspace of the single member "a".
SingleWorkspace == [ws |-> WorkspaceToml("ok", <<"a">>), manifests |-> GraphManifests({})]

\* The values a field of the current version takes: small ones and the two
\* largest a u64 holds.
FieldValues == {0, 1, 2, 3, UMax - 1, UMax}

ArmoryFile(file, version) == [file |-> file, version |-> version]

NoVersion == Version(0, 0, 0)

NoPanic == [kind |-> "none", pkg |-> "", tries |-> 0]

Panic(kind, pkg, tries) == [kind |-> kind, pkg |-> pkg, tries |-> tries]

EmptyGraph == [k \in {} |-> {}]

Init ==
    /\ pc = "load"
    /\ \/ /\ armory_file \in {ArmoryFile(f, CurrentString) : f \in FileStates}
          /\ \E w \in Workspaces :
                /\ workspace_toml = w.ws
                /\ manifests = w.manifests
                /\ original = w.manifests
       \/ /\ armory_file \in {ArmoryFile("ok", <<x, y, z>>) : x, y, z \in FieldValues}
          /\ workspace_toml = SingleWorkspace.ws
          /\ manifests = SingleWorkspace.manifests
          /\ original = SingleWorkspace.manifests
    /\ file_writes = 0
    /\ armory_toml = NoVersion
    /\ selected = NoVersion
    /\ rewritten = {}
    /\ next_member = 1
    /\ graph = EmptyGraph
    /\ already_published = {}
    /\ keys_left = {}
    /\ stack = <<>>
    /\ current_try = 1
    /\ calls = [n \in Names |-> 0]
    /\ successes = [n \in Names |-> 0]
    /\ visited = {}
    /\ panic = NoPanic

-----------------------------------------------------------------------------
(* main.rs                                                                 *)

\* main.rs:6, lib.rs:23-29  a missing file fails expect, an unparsable one unwrap.
LoadArmoryToml ==
    /\ pc = "load"
    /\ IF armory_file.file = "ok"
       THEN /\ armory_toml' = ParseVersion(armory_file.version)
            /\ pc' = "select"
            /\ UNCHANGED panic
       ELSE /\ pc' = "panicked"
            /\ panic' = Panic("armory.toml", "", 0)
            /\ UNCHANGED armory_toml
    /\ UNCHANGED <<visited, armory_file, file_writes, selected, workspace_toml, original, manifests,
                   rewritten, next_member, graph, already_published, keys_left,
                   stack, current_try, calls, successes>>

\* main.rs:12-16
PatchBump(v) == [v EXCEPT !.patch = WrappingInc(v.patch)]

\* The minor bump forgets to reset the patch number.
MinorBump_KeepPatch(v) == [v EXCEPT !.minor = WrappingInc(v.minor)]

\* main.rs:17-22
MinorBump(v) == [v EXCEPT !.minor = WrappingInc(v.minor), !.patch = 0]

\* main.rs:23-29
MajorBump(v) == [v EXCEPT !.major = WrappingInc(v.major), !.minor = 0, !.patch = 0]

\* main.rs:14, 19, 25  one of the three += 1 exceeds u64::MAX.
Overflows(v) == v.patch = UMax \/ v.minor = UMax \/ v.major = UMax

\* main.rs:11-30  all three items are computed before the menu is shown: in
\* a build with overflow checks an overflowing += 1 panics.
ItemsOverflow ==
    /\ pc = "select"
    /\ Overflows(armory_toml)
    /\ pc' = "panicked"
    /\ panic' = Panic("attempt to add with overflow", "", 0)
    /\ UNCHANGED <<visited, armory_file, file_writes, armory_toml, selected, workspace_toml,
                   original, manifests, rewritten, next_member, graph, already_published,
                   keys_left, stack, current_try, calls, successes>>

\* main.rs:11-33  the three offered targets, in the order of the menu.
Items(v) == <<PatchBump(v), MinorBump(v), MajorBump(v)>>

\* main.rs:35-41  the operator picks one of the items.
SelectRelease ==
    /\ pc = "select"
    /\ \E i \in 1..3 : selected' = Items(armory_toml)[i]
    /\ pc' = "save"
    /\ UNCHANGED <<visited, armory_file, file_writes, armory_toml, workspace_toml, original, manifests,
                   rewritten, next_member, graph, already_published, keys_left,
                   stack, current_try, calls, successes, panic>>

\* main.rs:39  interact() fails and `?` returns the error from main.
InteractError ==
    /\ pc = "select"
    /\ pc' = "exit_err"
    /\ UNCHANGED <<visited, armory_file, file_writes, armory_toml, selected, workspace_toml,
                   original, manifests, rewritten, next_member, graph, already_published,
                   keys_left, stack, current_try, calls, successes, panic>>

\* The record is not written before publish_workspace is called.
SaveArmoryToml_NoWrite ==
    /\ pc = "save"
    /\ armory_toml' = selected
    /\ pc' = "publish_workspace"
    /\ UNCHANGED <<visited, armory_file, file_writes, selected, workspace_toml, original,
                   manifests, rewritten, next_member, graph, already_published,
                   keys_left, stack, current_try, calls, successes, panic>>

\* main.rs:45-46, lib.rs:31-37
SaveArmoryToml ==
    /\ pc = "save"
    /\ armory_toml' = selected
    /\ armory_file' = ArmoryFile("ok", VersionToString(selected))
    /\ file_writes' = file_writes + 1
    /\ pc' = "publish_workspace"
    /\ UNCHANGED <<visited, selected, workspace_toml, original, manifests, rewritten, next_member,
                   graph, already_published, keys_left, stack, current_try, calls,
                   successes, panic>>

\* main.rs:50-52
PrintDone ==
    /\ pc = "print_done"
    /\ pc' = "done"
    /\ UNCHANGED <<visited, armory_file, file_writes, armory_toml, selected, workspace_toml,
                   original, manifests, rewritten, next_member, graph, already_published,
                   keys_left, stack, current_try, calls, successes, panic>>

-----------------------------------------------------------------------------
(* lib.rs: update_member_deps                                              *)

\* lib.rs:52-57  read and parse the workspace manifest.
ReadWorkspaceManifest ==
    /\ pc = "publish_workspace"
    /\ IF workspace_toml.file = "ok"
       THEN /\ pc' = "update_members"
            /\ UNCHANGED panic
       ELSE /\ pc' = "panicked"
            /\ panic' = Panic("workspace Cargo.toml", "", 0)
    /\ next_member' = 1
    /\ graph' = EmptyGraph
    /\ UNCHANGED <<visited, armory_file, file_writes, armory_toml, selected, workspace_toml,
                   original, manifests, rewritten, already_published, keys_left, stack,
                   current_try, calls, successes>>

\* lib.rs:86  graph.insert(member, local_deps)
GraphInsert(g, member, local_deps) ==
    [k \in DOMAIN g \cup {member} |-> IF k = member THEN local_deps ELSE g[k]]

\* A manifest that cannot be read or parsed is taken as an empty document.
Readable_Always(doc) == TRUE

\* lib.rs:61-62  read_to_string and parse both succeed (the unwraps pass).
Readable(doc) == doc.file = "ok"

\* lib.rs:59-87  one iteration of the loop over the members.
UpdateMember ==
    /\ pc = "update_members"
    /\ next_member <= Len(workspace_toml.members)
    /\ LET member == workspace_toml.members[next_member]
           doc    == manifests[member]
       IN  IF Readable(doc)
           THEN /\ manifests' = [manifests EXCEPT ![member] = UpdateManifest(doc, selected)]
                /\ rewritten' = rewritten \cup {member}
                /\ graph' = GraphInsert(graph, member, LocalDeps(doc))
                /\ next_member' = next_member + 1
                /\ UNCHANGED <<pc, panic>>
           ELSE /\ pc' = "panicked"
                /\ panic' = Panic("member Cargo.toml", member, 0)
                /\ UNCHANGED <<manifests, rewritten, graph, next_member>>
    /\ UNCHANGED <<visited, armory_file, file_writes, armory_toml, selected, workspace_toml,
                   original, already_published, keys_left, stack, current_try, calls, successes>>

-----------------------------------------------------------------------------
(* lib.rs: publish_workspace and publish_crate                             *)

\* The walk starts as soon as the first member is rewritten.
StartWalk_Early ==
    /\ pc = "update_members"
    /\ next_member > 1
    /\ already_published' = {}
    /\ keys_left' = DOMAIN graph
    /\ pc' = "walk"
    /\ UNCHANGED <<visited, armory_file, file_writes, armory_toml, selected, workspace_toml,
                   original, manifests, rewritten, next_member, graph, stack,
                   current_try, calls, successes, panic>>

\* lib.rs:96-100  the graph is returned; the walk starts with nothing published.
StartWalk ==
    /\ pc = "update_members"
    /\ next_member > Len(workspace_toml.members)
    /\ already_published' = {}
    /\ keys_left' = DOMAIN graph
    /\ pc' = "walk"
    /\ UNCHANGED <<visited, armory_file, file_writes, armory_toml, selected, workspace_toml,
                   original, manifests, rewritten, next_member, graph, stack, current_try,
                   calls, successes, panic>>

\* The early return is missing: a package is published whenever it is reached.
EarlyReturn_Never(name, published) == FALSE

\* A cycle detector: publish_crate also returns for a package whose call is
\* still in progress further down the stack.
EarlyReturn_InProgress(name, published) ==
    name \in published \/ \E i \in 1..Len(stack) : stack[i].pkg = name

\* lib.rs:117  the early return of publish_crate.
EarlyReturn(name, published) == name \in published

\* lib.rs:122  the dependencies publish_crate recurses into.
NeedsPublish(dep, published) == dep \notin published

\* The dependency loop is missing: a package is published before its dependencies.
DepsOf_None(name, g) == {}

\* lib.rs:121  the local dependencies that are published first.
DepsOf(name, g) == g[name]

\* lib.rs:110-121  publish_crate is entered for `name` with call stack `st`:
\* it returns at once, or unwrap fails on a name that is no key, or the stack
\* has no room for the frame, or the frame is pushed.
EnterCrate(name, st) ==
    /\ visited' = visited \cup {name}
    /\ IF EarlyReturn(name, already_published)
       THEN /\ stack' = st
            /\ UNCHANGED <<pc, panic>>
       ELSE IF name \notin DOMAIN graph
       THEN /\ pc' = "panicked"
            /\ panic' = Panic("no such package", name, 0)
            /\ stack' = st
       ELSE IF Len(st) >= MaxDepth
       THEN /\ pc' = "stack_overflow"
            /\ stack' = st
            /\ UNCHANGED panic
       ELSE /\ stack' = Append(st, [pkg |-> name, pending |-> DepsOf(name, graph)])
            /\ UNCHANGED <<pc, panic>>

\* lib.rs:100-107  the top-level loop calls publish_crate for the next key.
WalkNext ==
    /\ pc = "walk"
    /\ stack = <<>>
    /\ \E k \in keys_left :
          /\ keys_left' = keys_left \ {k}
          /\ EnterCrate(k, stack)
    /\ UNCHANGED <<armory_file, file_writes, armory_toml, selected, workspace_toml,
                   original, manifests, rewritten, next_member, graph, already_published,
                   current_try, calls, successes>>

\* lib.rs:107-108  the loop is over and publish_workspace returns.
WalkReturn ==
    /\ pc = "walk"
    /\ stack = <<>>
    /\ keys_left = {}
    /\ pc' = "print_done"
    /\ UNCHANGED <<visited, armory_file, file_writes, armory_toml, selected, workspace_toml,
                   original, manifests, rewritten, next_member, graph, already_published,
                   keys_left, stack, current_try, calls, successes, panic>>

Top == stack[Len(stack)]

\* lib.rs:121-125  the loop over the local dependencies takes the next one.
DepNext ==
    /\ pc = "walk"
    /\ stack # <<>>
    /\ \E dep \in Top.pending :
          LET st == [stack EXCEPT ![Len(stack)].pending = Top.pending \ {dep}]
          IN  IF NeedsPublish(dep, already_published)
              THEN EnterCrate(dep, st)
              ELSE /\ stack' = st
                   /\ UNCHANGED <<pc, panic, visited>>
    /\ UNCHANGED <<armory_file, file_writes, armory_toml, selected, workspace_toml,
                   original, manifests, rewritten, next_member, graph, already_published,
                   keys_left, current_try, calls, successes>>

\* What cargo::ops::publish answers: success, or an error of either kind.
Outcomes == {"ok", "transient", "permanent"}

\* The insert is missing: a published package is not remembered.
MarkPublished_Forget(published, pkg) == published

\* The set is assigned instead of extended: earlier members are dropped.
MarkPublished_Replace(published, pkg) == {pkg}

\* lib.rs:166  already_published.insert(current_package)
MarkPublished(published, pkg) == published \cup {pkg}

\* The budget is one attempt shorter: the fifth failure is already the last.
Exhausted_Early(try) == try > 4

\* lib.rs:153  the failed attempt is the last one.
Exhausted(try) == try > 5

\* A permanent error is fatal at once instead of being retried.
Fatal_OnPermanent(try, outcome) == outcome = "permanent" \/ Exhausted(try)

\* lib.rs:152-161  what a failed attempt does with the kind of its error.
Fatal(try, outcome) == Exhausted(try)

\* The last failure is swallowed: publish_crate returns instead of panicking.
PublishAttempt_Swallow ==
    /\ pc = "walk"
    /\ stack # <<>>
    /\ Top.pending = {}
    /\ \E outcome \in Outcomes :
          /\ calls' = [calls EXCEPT ![Top.pkg] = @ + 1]
          /\ IF outcome = "ok"
             THEN /\ successes' = [successes EXCEPT ![Top.pkg] = @ + 1]
                  /\ already_published' = MarkPublished(already_published, Top.pkg)
                  /\ stack' = SubSeq(stack, 1, Len(stack) - 1)
                  /\ current_try' = 1
             ELSE IF Fatal(current_try, outcome)
             THEN /\ stack' = SubSeq(stack, 1, Len(stack) - 1)
                  /\ current_try' = 1
                  /\ UNCHANGED <<successes, already_published>>
             ELSE /\ current_try' = current_try + 1
                  /\ UNCHANGED <<successes, already_published, stack>>
    /\ UNCHANGED <<visited, pc, panic, armory_file, file_writes, armory_toml, selected,
                   workspace_toml, original, manifests, rewritten, next_member,
                   graph, keys_left>>

\* The attempt counter is shared by all members: a success does not reset it.
PublishAttempt_NoReset ==
    /\ pc = "walk"
    /\ stack # <<>>
    /\ Top.pending = {}
    /\ \E outcome \in Outcomes :
          /\ calls' = [calls EXCEPT ![Top.pkg] = @ + 1]
          /\ IF outcome = "ok"
             THEN /\ successes' = [successes EXCEPT ![Top.pkg] = @ + 1]
                  /\ already_published' = MarkPublished(already_published, Top.pkg)
                  /\ stack' = SubSeq(stack, 1, Len(stack) - 1)
                  /\ UNCHANGED <<pc, panic, current_try>>
             ELSE IF Fatal(current_try, outcome)
             THEN /\ pc' = "panicked"
                  /\ panic' = Panic("failed to publish", Top.pkg, current_try)
                  /\ UNCHANGED <<successes, already_published, stack, current_try>>
             ELSE /\ current_try' = current_try + 1
                  /\ UNCHANGED <<successes, already_published, stack, pc, panic>>
    /\ UNCHANGED <<visited, armory_file, file_writes, armory_toml, selected, workspace_toml,
                   original, manifests, rewritten, next_member, graph, keys_left>>

\* lib.rs:127-166  one attempt of retry_with_index for the package on top of
\* the stack, its dependency loop being over.
PublishAttempt ==
    /\ pc = "walk"
    /\ stack # <<>>
    /\ Top.pending = {}
    /\ \E outcome \in Outcomes :
          /\ calls' = [calls EXCEPT ![Top.pkg] = @ + 1]
          /\ IF outcome = "ok"
             THEN /\ successes' = [successes EXCEPT ![Top.pkg] = @ + 1]
                  /\ already_published' = MarkPublished(already_published, Top.pkg)
                  /\ stack' = SubSeq(stack, 1, Len(stack) - 1)
                  /\ current_try' = 1
                  /\ UNCHANGED <<pc, panic>>
             ELSE IF Fatal(current_try, outcome)
             THEN /\ pc' = "panicked"
                  /\ panic' = Panic("failed to publish", Top.pkg, current_try)
                  /\ UNCHANGED <<successes, already_published, stack, current_try>>
             ELSE /\ current_try' = current_try + 1
                  /\ UNCHANGED <<successes, already_published, stack, pc, panic>>
    /\ UNCHANGED <<visited, armory_file, file_writes, armory_toml, selected, workspace_toml,
                   original, manifests, rewritten, next_member, graph, keys_left>>

\* lib.rs:128-132  loading cargo's configuration or the workspace fails.
ConfigPanic ==
    /\ pc = "walk"
    /\ stack # <<>>
    /\ Top.pending = {}
    /\ pc' = "panicked"
    /\ panic' = Panic("cargo config", Top.pkg, current_try)
    /\ UNCHANGED <<visited, armory_file, file_writes, armory_toml, selected, workspace_toml,
                   original, manifests, rewritten, next_member, graph, already_published,
                   keys_left, stack, current_try, calls, successes>>

-----------------------------------------------------------------------------

Next ==
    \/ LoadArmoryToml
    \/ ItemsOverflow
    \/ SelectRelease
    \/ InteractError
    \/ SaveArmoryToml
    \/ ReadWorkspaceManifest
    \/ UpdateMember
    \/ StartWalk
    \/ WalkNext
    \/ WalkReturn
    \/ DepNext
    \/ PublishAttempt
    \/ ConfigPanic
    \/ PrintDone

Spec == Init /\ [][Next]_vars

\* The walk of publish_workspace (lib.rs:98-108) as a function of its inputs:
\* the graph update_member_deps returned for a workspace of three members,
\* and a published set to start from, which is empty in publish_workspace
\* and may hold any members when the walk is invoked again.
WalkInit ==
    \E w \in GraphWorkspaces, published \in SUBSET Names :
        /\ pc = "walk"
        /\ selected = PatchBump(ParseVersion(CurrentString))
        /\ armory_toml = selected
        /\ armory_file = ArmoryFile("ok", VersionToString(selected))
        /\ file_writes = 1
        /\ workspace_toml = w.ws
        /\ original = w.manifests
        /\ manifests = [m \in Names |-> UpdateManifest(w.manifests[m], selected)]
        /\ rewritten = Names
        /\ next_member = Len(w.ws.members) + 1
        /\ graph = [m \in Names |-> LocalDeps(w.manifests[m])]
        /\ already_published = published
        /\ keys_left = Names
        /\ stack = <<>>
        /\ current_try = 1
        /\ calls = [n \in Names |-> 0]
        /\ successes = [n \in Names |-> 0]
        /\ visited = {}
        /\ panic = NoPanic

WalkStep ==
    \/ WalkNext
    \/ WalkReturn
    \/ DepNext
    \/ PublishAttempt
    \/ ConfigPanic

WalkSpec == WalkInit /\ [][WalkStep]_vars

\* The process is sequential and never waits for anything but its own next
\* step: as long as a step is possible, a step is taken.
FairSpec == Spec /\ WF_vars(Next)

-----------------------------------------------------------------------------
(* Graph notions the properties use                                        *)

RECURSIVE Closure(_, _)
\* The names reachable from set S along the edges of g, S included.
Closure(g, S) ==
    LET T == S \cup UNION {g[k] : k \in S \cap DOMAIN g}
    IN  IF T = S THEN S ELSE Closure(g, T)

\* The names `name` depends on, directly or through other members.
Descendants(g, name) == IF name \in DOMAIN g THEN Closure(g, g[name]) ELSE {}

Acyclic(g) == \A k \in DOMAIN g : k \notin Descendants(g, k)

Closed(g) == \A k \in DOMAIN g : g[k] \subseteq DOMAIN g

Members == {workspace_toml.members[i] : i \in 1..Len(workspace_toml.members)}

\* update_member_deps has inserted every member into the graph.
GraphComplete == pc # "publish_workspace" /\ pc # "load" /\ pc # "select" /\ pc # "save"
                 /\ next_member > Len(workspace_toml.members)

RegistryCalled == \E n \in Names : calls[n] > 0

-----------------------------------------------------------------------------
(* Properties                                                              *)

\* C1: for an acyclic graph whose edge targets are all members, whatever the
\* registry answers and in whatever order keys and dependencies are iterated,
\* a member is handed to the registry only when every local dependency of it
\* is already in already_published, and a member enters already_published
\* only when its dependencies are in it already (so strictly before it).
C1_DepsPublishedFirst ==
    [][(Acyclic(graph) /\ Closed(graph)) =>
         \A m \in Names :
            /\ calls'[m] > calls[m] =>
                  /\ m \in DOMAIN graph
                  /\ graph[m] \subseteq already_published
                  /\ m \notin graph[m]
            /\ (m \in already_published' /\ m \notin already_published) =>
                  /\ graph[m] \subseteq already_published
                  /\ m \notin graph[m]]_vars

\* The scenario of C1: b and c each depend on a, and all three are published.
C1_Witness ==
    /\ DOMAIN graph = Names
    /\ graph["a"] = {} /\ graph["b"] = {"a"} /\ graph["c"] = {"a"}
    /\ already_published = Names

\* C2: within one run no member has more than one successful publish, and
\* the registry is never called for a member that is in already_published,
\* however often the member is reached again.
C2_AtMostOnce ==
    [][\A m \in Names :
          /\ calls'[m] > calls[m] => m \notin already_published
          /\ successes'[m] <= 1]_vars

\* b and c both depend on a: a is reached from both and from the top-level
\* loop, and the walk is over with one successful publish of each member.
C2_Witness ==
    /\ pc = "print_done"
    /\ DOMAIN graph = Names
    /\ graph["b"] = {"a"} /\ graph["c"] = {"a", "b"}
    /\ \A m \in Names : successes[m] = 1

\* publish_crate panicked in its retry closure: the member's publish did not
\* succeed within its retry budget, or cargo's configuration did not load.
PublishFailed ==
    pc = "panicked" /\ panic.kind \in {"failed to publish", "cargo config"}

\* C3: for an acyclic graph whose edge targets are all members, the walk
\* terminates: publish_workspace returns unless some member's publish fails
\* for good; and when it returns, already_published is the set of all graph
\* keys and each member was published exactly once.
C3_WalkCompletes ==
    /\ [](pc = "print_done" =>
            /\ already_published = DOMAIN graph
            /\ \A m \in DOMAIN graph : successes[m] = 1)
    /\ (pc = "walk" /\ Acyclic(graph) /\ Closed(graph)) ~> (pc = "print_done" \/ PublishFailed)

\* The chain c -> b -> a was walked to its end with a retry on the way.
C3_Witness ==
    /\ pc = "print_done"
    /\ DOMAIN graph = Names
    /\ graph["a"] = {} /\ graph["b"] = {"a"} /\ graph["c"] = {"b"}
    /\ already_published = Names
    /\ calls["b"] = 3

\* lib.rs:153  attempts 1 to 5 are retried, the failed attempt 6 panics.
MaxAttempts == 6

\* The publish of m failed on every attempt it was given.
RetriesExhausted(m) == calls[m] = MaxAttempts /\ successes[m] = 0

\* C4: a publish that keeps failing is attempted exactly 6 times and then
\* the run ends in the panic of lib.rs:154, whatever the errors were: no
\* member is ever tried more than 6 times, the walk goes on while fewer than
\* 6 attempts failed, and the panic names the member and attempt 6.
C4_RetryBound ==
    /\ \A m \in Names : calls[m] <= MaxAttempts
    /\ \A m \in Names :
          RetriesExhausted(m) => (pc = "panicked" /\ panic = Panic("failed to publish", m, MaxAttempts))
    /\ (pc = "panicked" /\ panic.kind = "failed to publish") =>
          (RetriesExhausted(panic.pkg) /\ panic.tries = MaxAttempts)
    /\ (pc = "walk" /\ stack # <<>> /\ Top.pending = {}) =>
          calls[Top.pkg] = current_try - 1

C4_Witness ==
    /\ pc = "panicked"
    /\ panic = Panic("failed to publish", "b", MaxAttempts)
    /\ calls["b"] = MaxAttempts
    /\ already_published = {"a"}

\* C5: when a member's publish has failed on all its attempts the run is
\* over: no step follows (so no registry call for any member), the member
\* and the members that depend on it are not in already_published and were
\* never handed to the registry, and exactly the members published before
\* the failure are in already_published.
C5_AbortOnExhaustion ==
    \A m \in Names :
        RetriesExhausted(m) =>
            /\ ~ENABLED Next
            /\ m \notin already_published
            /\ \A d \in DOMAIN graph :
                  m \in Descendants(graph, d) => (d \notin already_published /\ calls[d] = 0)
            /\ already_published = {n \in Names : successes[n] = 1}

\* In the chain c -> b -> a, a was published and b failed for good.
C5_Witness ==
    /\ RetriesExhausted("b")
    /\ DOMAIN graph = Names
    /\ graph["b"] = {"a"} /\ graph["c"] = {"b"}
    /\ already_published = {"a"}
    /\ pc = "panicked"

\* C6: a graph with a local-dependency cycle is rejected as a configuration
\* error before any publish attempt: when the graph that was built has a
\* cycle, the registry is never called and the recursion does not run away.
C6_CycleRejected ==
    (GraphComplete /\ ~Acyclic(graph)) => (~RegistryCalled /\ pc # "stack_overflow")

\* C7: the graph is closed over workspace membership: when graph
\* construction is over every edge target is a key of the graph, and a member
\* that names a local dependency outside the workspace aborts the run during
\* graph construction, before any publish attempt.
C7_ClosedOverMembers ==
    /\ GraphComplete => Closed(graph)
    /\ (\E i \in 1..Len(workspace_toml.members) :
            ~(LocalDeps(original[workspace_toml.members[i]]) \subseteq Members)) =>
          (pc # "walk" /\ ~RegistryCalled)

\* The entry has a "path" key that is a string: cargo resolves it through
\* the local file system.
HasLocalPath(e) == e.present /\ e.path = "str"

\* C8 as stated: after update_member_deps has returned for target version v,
\* every member's package version is v, every dependency entry that resolves
\* through a local path, in whatever section, requires v and is an edge of
\* the member, and every entry without a local path and every other field of
\* the manifest is unchanged.
C8_AllPathEntriesPinned ==
    GraphComplete =>
        \A m \in Members :
            /\ manifests[m].version = VersionToString(selected)
            /\ \A n \in Names :
                  /\ HasLocalPath(original[m].deps[n]) =>
                        /\ manifests[m].deps[n].version = VersionToString(selected)
                        /\ n \in graph[m]
                  /\ HasLocalPath(original[m].otherDeps[n]) =>
                        /\ manifests[m].otherDeps[n].version = VersionToString(selected)
                        /\ n \in graph[m]
                  /\ ~HasLocalPath(original[m].deps[n]) => manifests[m].deps[n] = original[m].deps[n]
                  /\ ~HasLocalPath(original[m].otherDeps[n]) => manifests[m].otherDeps[n] = original[m].otherDeps[n]
            /\ manifests[m].other = original[m].other

\* The entry n of m's manifest that update_member_deps treats as local: an
\* entry of the table [dependencies] that is table-like with a string path.
Pinned(m, n) == original[m].depsIsTable /\ IsLocal(original[m].deps[n])

\* What update_member_deps does establish: when it has returned for target
\* version v, every member's package version is v; every table-like entry
\* with a string path of a member's [dependencies] table requires v, is
\* otherwise as it was, and is an edge of the member; nothing else is an
\* edge, and every other entry, every entry of another section, every other
\* field and every manifest outside the workspace is unchanged.
DependenciesTablePinned ==
    GraphComplete =>
        /\ \A m \in Members :
              /\ manifests[m] =
                    [original[m] EXCEPT
                        !.version = VersionToString(selected),
                        !.deps = [n \in Names |->
                                    IF Pinned(m, n)
                                    THEN [original[m].deps[n] EXCEPT
                                             !.version = VersionToString(selected)]
                                    ELSE original[m].deps[n]]]
              /\ graph[m] = {n \in Names : Pinned(m, n)}
        /\ \A m \in Names \ Members : manifests[m] = original[m]

\* a's path dependency on b was pinned beside an untouched registry dependency.
DependenciesTablePinned_Witness ==
    /\ pc = "walk"
    /\ original["a"].deps["b"] = PathVerDep
    /\ original["a"].deps["c"] = RegistryDep
    /\ manifests["a"].deps["b"].version = VersionToString(selected)
    /\ manifests["a"].deps["c"] = RegistryDep
    /\ manifests["a"].version = VersionToString(selected)
    /\ graph["a"] = {"b"}

\* C9: a registry publish attempt happens only when the manifest of every
\* workspace member has been written with the target version, and once the
\* registry has been called no manifest is written any more.
C9_RewriteBeforePublish ==
    [][/\ (\E n \in Names : calls'[n] > calls[n]) =>
             \A m \in Members :
                /\ m \in rewritten
                /\ manifests[m].version = VersionToString(selected)
       /\ RegistryCalled => (manifests' = manifests /\ rewritten' = rewritten)]_vars

\* All three members are rewritten and the registry has been called.
C9_Witness ==
    /\ RegistryCalled
    /\ Members = Names
    /\ rewritten = Names
    /\ \A m \in Names : manifests[m].version # original[m].version

\* The run is past save_armory_toml (main.rs:46).
PastSave ==
    \/ pc \in {"publish_workspace", "update_members", "walk", "print_done", "done",
               "stack_overflow"}
    \/ pc = "panicked" /\ panic.kind \notin {"armory.toml", "attempt to add with overflow"}

\* C10: armory.toml is written exactly once, with the selected version,
\* before any member manifest is rewritten and before any publish attempt,
\* and never again: from save_armory_toml on, also after an abort during
\* manifest rewriting or publishing, the file holds the selected version and
\* was written once; before, it was not written.
C10_RecordWrittenOnce ==
    /\ file_writes <= 1
    /\ PastSave <=> file_writes = 1
    /\ (rewritten # {} \/ RegistryCalled) => file_writes = 1
    /\ file_writes = 1 => armory_file = ArmoryFile("ok", VersionToString(selected))
    /\ (file_writes = 0 /\ pc \in {"select", "save"}) =>
          armory_file = ArmoryFile("ok", VersionToString(armory_toml))

\* The run aborted while publishing, with one of three members published,
\* and the record holds the new version.
C10_Witness ==
    /\ pc = "panicked"
    /\ panic.kind = "failed to publish"
    /\ Members = Names
    /\ Cardinality(already_published) = 1
    /\ file_writes = 1
    /\ armory_file.version = VersionToString(selected)
    /\ armory_file.version # CurrentString

\* C11: already_published is empty until the walk of publish_workspace
\* starts and then only grows: every step leaves a superset, a member is
\* added only by the step in which its own publish succeeded, and the set is
\* always a subset of the names publish_crate was called with.
C11_PublishedGrows ==
    /\ [](pc \in {"load", "select", "save", "publish_workspace", "update_members"} =>
            already_published = {})
    /\ [](already_published \subseteq visited)
    /\ [][/\ already_published \subseteq already_published'
          /\ \A m \in already_published' \ already_published :
                /\ stack # <<>> /\ Top.pkg = m
                /\ successes'[m] = successes[m] + 1
                /\ calls'[m] = calls[m] + 1
                /\ already_published' = already_published \cup {m}]_vars

\* Two members were added one after the other, the second after a retry.
C11_Witness ==
    /\ already_published = {"a", "b"}
    /\ visited = Names
    /\ calls["b"] = 2
    /\ pc = "walk"

\* C12: the walk is idempotent: when already_published holds every key of
\* the graph, every step of the loop over the keys leaves the registry
\* uncalled and already_published as it is, and returns at once, so a second
\* walk over all keys makes no registry call.
C12_SecondWalkNoOp ==
    [][(pc = "walk" /\ already_published = DOMAIN graph) =>
          /\ calls' = calls
          /\ successes' = successes
          /\ already_published' = already_published
          /\ stack' = <<>>
          /\ pc' \in {"walk", "print_done"}]_vars

\* A walk that started with every member published has visited every key
\* and returned without a registry call.
C12_Witness ==
    /\ pc = "print_done"
    /\ visited = Names
    /\ already_published = Names
    /\ \A n \in Names : calls[n] = 0

\* The order of semantic versions on (major, minor, patch).
SemverLess(v, w) ==
    \/ v.major < w.major
    \/ v.major = w.major /\ v.minor < w.minor
    \/ v.major = w.major /\ v.minor = w.minor /\ v.patch < w.patch

\* The three targets of current version v in exact arithmetic.
ExactItems(v) ==
    <<Version(v.major, v.minor, v.patch + 1),
      Version(v.major, v.minor + 1, 0),
      Version(v.major + 1, 0, 0)>>

\* The menu offers the exact targets of the loaded version, each greater
\* than it, and the selected target is one of them.
BumpsExact ==
    /\ pc = "select" =>
          /\ Items(armory_toml) = ExactItems(armory_toml)
          /\ \A i \in 1..3 : SemverLess(armory_toml, Items(armory_toml)[i])
    /\ pc = "save" =>
          /\ \E i \in 1..3 : selected = ExactItems(armory_toml)[i]
          /\ SemverLess(armory_toml, selected)

\* C13 as stated: for every current version (major, minor, patch) the three
\* offered targets are (major, minor, patch+1), (major, minor+1, 0) and
\* (major+1, 0, 0), each greater than the current version.
C13_BumpsExactAlways == BumpsExact

\* C13, amended: for every current version whose major, minor and patch are
\* all below u64::MAX the three offered targets are (major, minor, patch+1),
\* (major, minor+1, 0) and (major+1, 0, 0), each greater than the current
\* version; 1.2.3 gives 1.2.4, 1.3.0 and 2.0.0.
C13_BumpsExactBelowMax ==
    /\ (pc \in {"select", "save"} /\ ~Overflows(armory_toml)) => BumpsExact
    /\ Items(Version(1, 2, 3)) = <<Version(1, 2, 4), Version(1, 3, 0), Version(2, 0, 0)>>

\* The minor bump of 1.2.3 was selected.
C13_Witness ==
    /\ pc = "save"
    /\ armory_toml = Version(1, 2, 3)
    /\ selected = Version(1, 3, 0)

\* The position in the member list of the first member whose manifest is
\* missing or unparsable; one past the end of the list when there is none.
FirstBroken ==
    LET members == workspace_toml.members
        broken  == {i \in 1..Len(members) : original[members[i]].file # "ok"}
    IN  IF broken = {} THEN Len(members) + 1
        ELSE CHOOSE i \in broken : \A j \in broken : i <= j

\* update_member_deps has ended, by returning or by a panic.
BuilderEnded ==
    \/ pc \in {"walk", "print_done", "done", "stack_overflow"}
    \/ pc = "panicked" /\ panic.kind \notin {"armory.toml", "attempt to add with overflow"}

\* C14: a missing or unparsable workspace manifest aborts the builder with
\* no member manifest modified; a missing or unparsable manifest of the k-th
\* listed member aborts it with the manifests of the k-th and all later
\* members as they were, the manifests of the members before it rewritten,
\* and no registry call made.
C14_BrokenManifestAborts ==
    LET members == workspace_toml.members
    IN  /\ (BuilderEnded /\ workspace_toml.file # "ok") =>
              /\ pc = "panicked" /\ panic = Panic("workspace Cargo.toml", "", 0)
              /\ manifests = original
              /\ rewritten = {}
              /\ ~RegistryCalled
        /\ (BuilderEnded /\ workspace_toml.file = "ok" /\ FirstBroken <= Len(members)) =>
              /\ pc = "panicked" /\ panic = Panic("member Cargo.toml", members[FirstBroken], 0)
              /\ \A i \in 1..Len(members) :
                    IF i < FirstBroken
                    THEN /\ members[i] \in rewritten
                         /\ manifests[members[i]] = UpdateManifest(original[members[i]], selected)
                         /\ manifests[members[i]] # original[members[i]]
                    ELSE /\ members[i] \notin rewritten
                         /\ manifests[members[i]] = original[members[i]]
              /\ ~RegistryCalled
        /\ (workspace_toml.file # "ok" \/ FirstBroken <= Len(members)) =>
              pc \notin {"walk", "print_done", "done", "stack_overflow"}

\* The manifest of the second of three members is broken: the run ended
\* with the first member rewritten and the other two untouched.
C14_Witness ==
    /\ pc = "panicked"
    /\ panic = Panic("member Cargo.toml", "b", 0)
    /\ original["c"].file = "ok"
    /\ rewritten = {"a"}
    /\ manifests["a"].version = VersionToString(selected)
    /\ manifests["c"] = original["c"]

\* The step is a registry call for member m.
RegistryCallFor(m) == calls'[m] = calls[m] + 1

\* C15: while a member is being attempted, every earlier attempt of it has
\* failed; a failure among the first five attempts is not fatal and leaves
\* the member to be tried again; a success after k <= 5 failures adds the
\* member to the published set with exactly k+1 registry calls made for it,
\* and publish_crate returns to its caller, so that the walk goes on.
C15_SucceedsAfterRetries ==
    [][\A m \in Names : RegistryCallFor(m) =>
          /\ pc = "walk" /\ stack # <<>> /\ Top.pkg = m
          /\ calls[m] = current_try - 1
          /\ successes[m] = 0
          /\ m \notin already_published
          /\ current_try - 1 <= 5
          /\ IF successes'[m] = 1
             THEN /\ already_published' = already_published \cup {m}
                  /\ calls'[m] = (current_try - 1) + 1
                  /\ pc' = "walk" /\ panic' = NoPanic
                  /\ stack' = SubSeq(stack, 1, Len(stack) - 1)
                  /\ keys_left' = keys_left
                  /\ current_try' = 1
             ELSE /\ already_published' = already_published
                  /\ IF current_try <= 5
                     THEN /\ pc' = "walk" /\ panic' = NoPanic
                          /\ stack' = stack
                          /\ current_try' = current_try + 1
                     ELSE pc' = "panicked"]_vars

\* Member a failed five times and succeeded at the sixth attempt; the walk
\* went on to its dependent b, which was published at its first attempt.
C15_Witness ==
    /\ DOMAIN graph = Names
    /\ graph["b"] = {"a"}
    /\ calls["a"] = 6 /\ successes["a"] = 1 /\ "a" \in already_published
    /\ calls["b"] = 1 /\ successes["b"] = 1 /\ "b" \in already_published
    /\ panic = NoPanic

\* Member m lies on a cycle of g or depends, directly or not, on one that does.
ReachesCycle(g, m) == \E n \in {m} \cup Descendants(g, m) : n \in Descendants(g, n)

\* C16: the walk does not detect cycles.  A member that lies on a cycle of
\* local dependencies, or reaches one, is never handed to the registry and
\* never enters already_published; a call of publish_crate for such a member
\* never returns (its frame stays on the stack for good); a run whose graph
\* has a cycle never gets to the end of the walk; and the stack is exhausted
\* only by a cycle.
C16_CyclesNotDetected ==
    /\ [](GraphComplete =>
            /\ \A m \in DOMAIN graph : ReachesCycle(graph, m) =>
                  (calls[m] = 0 /\ m \notin already_published)
            /\ ~Acyclic(graph) => pc \notin {"print_done", "done"}
            /\ pc = "stack_overflow" =>
                  (stack # <<>> /\ \A i \in 1..Len(stack) : ReachesCycle(graph, stack[i].pkg)))
    /\ [][\A i \in 1..Len(stack) : ReachesCycle(graph, stack[i].pkg) =>
              (Len(stack') >= i /\ stack'[i].pkg = stack[i].pkg)]_vars

\* The recursion ran away on the cycle a <-> b after the top-level loop had
\* visited and published c, which is on no cycle.
C16_Witness ==
    /\ pc = "stack_overflow"
    /\ DOMAIN graph = Names
    /\ graph["a"] = {"b"} /\ graph["b"] = {"a"} /\ graph["c"] = {}
    /\ already_published = {"c"}
    /\ calls["a"] = 0 /\ calls["b"] = 0

RECURSIVE TotalCalls(_)
\* The number of registry calls made for the names of S.
TotalCalls(S) ==
    IF S = {} THEN 0
    ELSE LET m == CHOOSE x \in S : TRUE IN calls[m] + TotalCalls(S \ {m})

\* C17: the retry budget is per member.  The attempt counter of the member
\* being published counts the calls made for that member alone, and it is
\* back at 1 whenever no member is being attempted; so each member causes at
\* most 6 registry calls, names outside the workspace cause none, and a
\* workspace of N members causes at most 6*N calls.
C17_BudgetPerMember ==
    /\ (pc = "walk" /\ stack # <<>>) => current_try = calls[Top.pkg] + 1
    /\ (pc = "walk" /\ stack = <<>>) => current_try = 1
    /\ \A m \in Names : calls[m] <= MaxAttempts
    /\ \A m \in Names \ Members : calls[m] = 0
    /\ TotalCalls(Names) <= MaxAttempts * Cardinality(Members)

\* Members a and b each failed five times and succeeded at the sixth attempt:
\* the failures of the first did not shorten the budget of the second.
C17_Witness ==
    /\ calls["a"] = MaxAttempts /\ successes["a"] = 1
    /\ calls["b"] = MaxAttempts /\ successes["b"] = 1
    /\ {"a", "b"} \subseteq already_published
    /\ panic = NoPanic

\* Some manifest update_member_deps reads is missing or unparsable.
RewriteFails ==
    workspace_toml.file # "ok" \/ \E m \in Members : original[m].file # "ok"

\* C18: "Done!" is printed only when every workspace member is in
\* already_published, each published by exactly one successful registry call
\* after its manifest was rewritten; a run in which a member exhausted its
\* retries, or in which the rewriting of the manifests failed, never gets to
\* print it.
C18_DoneOnlyWhenAllPublished ==
    /\ pc = "done" =>
          /\ already_published = Members
          /\ \A m \in Members : successes[m] = 1 /\ m \in rewritten
          /\ panic = NoPanic
    /\ (\E m \in Names : RetriesExhausted(m)) => pc \notin {"print_done", "done"}
    /\ RewriteFails => pc \notin {"print_done", "done"}
    /\ panic # NoPanic => pc = "panicked"

\* Completion was reported for a workspace of three members, one of which
\* needed a second attempt.
C18_Witness ==
    /\ pc = "done"
    /\ Members = Names
    /\ already_published = Names
    /\ calls["a"] = 2

\* C19: when update_member_deps has returned, n is an edge of member m
\* exactly when n is an entry of m's table [dependencies] that is table-like
\* and has a string path; only such entries are changed, and they require the
\* target version; the entries of every other dependency section are as they
\* were, path entries included, and none of them is an edge on its own.
C19_LocalOnlyInDependenciesTable ==
    GraphComplete =>
        \A m \in Members : \A n \in Names :
            LET e == original[m].deps[n]
                d == original[m].otherDeps[n]
                local == /\ original[m].depsIsTable
                         /\ e.present /\ e.tableLike /\ e.path = "str"
            IN  /\ n \in graph[m] <=> local
                /\ local => manifests[m].deps[n] =
                               [e EXCEPT !.version = VersionToString(selected)]
                /\ ~local => manifests[m].deps[n] = e
                /\ manifests[m].otherDeps[n] = d
                /\ (HasLocalPath(d) /\ ~local) =>
                      (manifests[m].otherDeps[n].version # VersionToString(selected)
                       /\ n \notin graph[m])

\* Member a names b by path in another section only: the entry was left as
\* it was, and a was published while b had not been handed to the registry.
C19_Witness ==
    /\ original["a"].otherDeps["b"] = PathDep
    /\ ~original["a"].deps["b"].present
    /\ manifests["a"].otherDeps["b"] = PathDep
    /\ "a" \in already_published
    /\ "b" \in Members
    /\ calls["b"] = 0

====
